---- MODULE Spec2Model ----
(***************************************************************************)
(* A model of microtap's test execution engine and TAP 14 serializer       *)
(* (src/microtap.py): execute_test_plans, _execute_test_plan and the       *)
(* string helpers they use.                                                *)
(*                                                                         *)
(* Text is a sequence of tokens.  Whitespace and the characters the        *)
(* escaping rule is about ("#" and "\") are always tokens of their own;    *)
(* a run of other characters that the code never looks into ("ok",         *)
(* "not ok", "SKIP", "1..", a decimal number) is one token.                *)
(***************************************************************************)
EXTENDS Integers, Sequences, FiniteSets, TLC

\* Bounds of the model: the longest plan sequence given to
\* execute_test_plans, and the most test points the plans of one session
\* hold together.
MaxPlans == 2
MaxPoints == 2
\* The most entries of the directory find_test_plans lists, and the most
\* calls of find_test_plans in one interpreter.
MaxFiles == 2
MaxCalls == 2

SP == " "
LF == "\n"
HASH == "#"
BSL == "\\"

\* Python's None, where the code has an Optional[str].
None == << "<None>" >>

\* Python truthiness of an Optional[str]: neither None nor "".
Truthy(s) == s # None /\ s # << >>

\* What an f-string or str() makes of an Optional[str].
Format(s) == IF s = None THEN << "None" >> ELSE s

IsSpace(c) == c \in {SP, LF}

RECURSIVE LStrip(_)
LStrip(s) ==
    IF s = << >> THEN s
    ELSE IF IsSpace(Head(s)) THEN LStrip(Tail(s)) ELSE s

RECURSIVE RStrip(_)
RStrip(s) ==
    IF s = << >> THEN s
    ELSE IF IsSpace(s[Len(s)]) THEN RStrip(SubSeq(s, 1, Len(s) - 1)) ELSE s

\* str.strip()
Strip(s) == LStrip(RStrip(s))

\* str.replace(old, new) for a one-character old.
RECURSIVE Replace(_, _, _)
Replace(s, old, new) ==
    IF s = << >> THEN s
    ELSE (IF Head(s) = old THEN new ELSE << Head(s) >>)
         \o Replace(Tail(s), old, new)

\* The position of the first line terminator of s from position i on;
\* Len(s) + 1 without one.
RECURSIVE LineEndFrom(_, _)
LineEndFrom(s, i) ==
    IF i > Len(s) \/ s[i] = LF THEN i ELSE LineEndFrom(s, i + 1)

LineEnd(s) == LineEndFrom(s, 1)

\* str.splitlines(): the lines of s without their terminators; a trailing
\* terminator opens no further line.
RECURSIVE SplitLines(_)
SplitLines(s) ==
    IF s = << >> THEN << >>
    ELSE LET n == LineEnd(s)
         IN  << SubSeq(s, 1, n - 1) >> \o SplitLines(SubSeq(s, n + 1, Len(s)))

Spaces(n) == [i \in 1..n |-> SP]


(***************************************************************************)
(* Pure helpers of the module.                                             *)
(***************************************************************************)

\* Mutant: "#" is escaped before "\", so the backslash that escapes it is
\* escaped in turn.
_escape_string_HashFirst(string) ==
    IF ~(Truthy(string) /\ Truthy(Strip(string))) THEN None
    ELSE Strip(Replace(Replace(string, HASH, << BSL, HASH >>),
                       BSL, << BSL, BSL >>))

_escape_string(string) ==
    IF ~(Truthy(string) /\ Truthy(Strip(string))) THEN None
    ELSE Strip(Replace(Replace(string, BSL, << BSL, BSL >>),
                       HASH, << BSL, HASH >>))

_trim_empty_to_none(string) ==
    IF ~(Truthy(string) /\ Truthy(Strip(string))) THEN None
    ELSE Strip(string)

\* The arguments of a raised exception: a tuple of values, each a str or
\* something else (an errno, a key, ...).
Str(text) == [str |-> TRUE, text |-> text]
NonStr == [str |-> FALSE, text |-> << "2" >>]

\* " ".join(exception.args) raises TypeError unless every item is a str.
JoinRaises(args) == \E i \in 1..Len(args) : ~args[i].str

RECURSIVE Join(_)
Join(args) ==
    IF args = << >> THEN << >>
    ELSE IF Len(args) = 1 THEN args[1].text
    ELSE args[1].text \o << SP >> \o Join(Tail(args))

\* A text that is only ever appended to is kept as its complete lines,
\* without their terminators, and what follows the last terminator.
EmptyText == [lines |-> << >>, rest |-> << >>]

RECURSIVE AppendText(_, _)
AppendText(text, string) ==
    IF string = << >> THEN text
    ELSE LET n == LineEnd(string)
         IN  IF n > Len(string) THEN [text EXCEPT !.rest = @ \o string]
             ELSE AppendText(
                      [lines |-> Append(text.lines,
                                        text.rest \o SubSeq(string, 1, n - 1)),
                       rest |-> << >>],
                      SubSeq(string, n + 1, Len(string)))

\* The output stream: what write() has handed to it and flush() has not yet
\* pushed out (buf), and the text that has reached the consumer (out).
NewStream == [buf |-> << >>, out |-> EmptyText]
write(stream, string) == [stream EXCEPT !.buf = @ \o string]
flush(stream) == [buf |-> << >>, out |-> AppendText(stream.out, stream.buf)]

\* _build_stream_writer returns a closure over the prefix; the closure is
\* modelled by its prefix, and _writer takes it as a parameter.
_build_stream_writer(indentation_level) == Spaces(indentation_level)

\* Mutant: the line is written and left to the stream's buffering.
_writer_NoFlush(stream, prefix, string) ==
    write(stream, prefix \o string \o << LF >>)

_writer(stream, prefix, string) ==
    flush(write(stream, prefix \o string \o << LF >>))

\* sys.print_exception's text for an exception: lines ending in LF.
Traceback == << "Traceback", LF, SP, SP, "File", LF, "Error", LF >>

RECURSIVE IndentLines(_)
IndentLines(lines) ==
    IF lines = << >> THEN << >>
    ELSE << SP, SP >> \o Head(lines) \o << LF >> \o IndentLines(Tail(lines))

\* Defined when ~JoinRaises(args).
_format_exception(args, trace) ==
    << "---", LF >>
    \o << "exception:", SP >> \o Join(args) \o << LF >>
    \o << "traceback:", SP, "|-", LF >>
    \o IndentLines(SplitLines(trace))
    \o << "...", LF >>

ResultWord(success) == IF success THEN << "ok" >> ELSE << "not ok" >>

_write_test_result(stream, prefix, description, index, success, directive, directive_description) ==
    LET escaped == _escape_string(directive_description)
        string == ResultWord(success)
                  \o << SP, ToString(index) >>
                  \o (IF Truthy(description)
                      THEN << SP, "-", SP >> \o description ELSE << >>)
                  \o (IF Truthy(directive)
                      THEN << SP, HASH, SP >> \o directive
                           \o (IF Truthy(escaped)
                               THEN << SP >> \o escaped ELSE << >>)
                      ELSE << >>)
    IN  _writer(stream, prefix, string)

\* Defined when ~JoinRaises(args).
_format_bailout_exception(args) ==
    Strip(<< "Bail", SP, "out!", SP >> \o Format(_escape_string(Join(args))))
    \o << LF >>

(***************************************************************************)
(* Plans.                                                                  *)
(***************************************************************************)

\* Plan.__init__
Plan(file_name, description, skipped) ==
    [file_name |-> file_name,
     description |-> _trim_empty_to_none(description),
     test_points |-> << >>,
     skipped |-> skipped]

\* Plan.add_test_point; a test point function is known by a name.
add_test_point(plan, test_point, description) ==
    [plan EXCEPT !.test_points =
        Append(@, [fn |-> test_point,
                   description |-> _trim_empty_to_none(description)])]


(***************************************************************************)
(* The inputs of a session.                                                *)
(***************************************************************************)

\* What a test file passes as a description: nothing, or a text with
\* surrounding whitespace the constructors trim.
PlanDescriptions == {None, << SP, "math", SP, HASH, "1", SP >>}
\* A test file describes either its plan or its test points.
PointDescription(d) ==
    IF d = None THEN << "adds", SP, HASH, "2", SP >> ELSE None
FileName(k) == << "test_" \o ToString(k) \o ".py" >>

RECURSIVE AddPoints(_, _, _)
AddPoints(plan, n, description) ==
    IF n = 0 THEN plan
    ELSE add_test_point(AddPoints(plan, n - 1, description), n, description)

BuildPlan(k, d, skipped, n) ==
    AddPoints(Plan(FileName(k), d, skipped), n, PointDescription(d))

\* The plans a test file at position k of the directory can have built: a
\* plan with some test points, or a skipped plan (which holds a test point
\* all the same).
PlansOf(k) ==
    { BuildPlan(k, d, FALSE, n) : d \in PlanDescriptions, n \in 0..MaxPoints }
    \cup { BuildPlan(k, d, TRUE, 1) : d \in PlanDescriptions }

RECURSIVE TotalPoints(_)
TotalPoints(ps) ==
    IF ps = << >> THEN 0
    ELSE Len(Head(ps).test_points) + TotalPoints(Tail(ps))

\* The plan sequences of length m that hold at most MaxPoints test points.
\* Of two neighbouring plans one is described and the other is not, so that
\* every position of a session sees both without every combination being
\* tried.
RECURSIVE PlanSequencesOfLen(_)
PlanSequencesOfLen(m) ==
    IF m = 0 THEN { << >> }
    ELSE { s \in { Append(ps, p) : ps \in PlanSequencesOfLen(m - 1),
                                   p \in PlansOf(m) } :
             /\ TotalPoints(s) <= MaxPoints
             /\ \A j \in 1..(Len(s) - 1) :
                   (s[j].description = None) # (s[j + 1].description = None) }

PlanSequences == UNION { PlanSequencesOfLen(m) : m \in 0..MaxPlans }

\* type(plans): a bare Plan, a list or a tuple.  A tuple is tried where the
\* type decides something, up to one plan; beyond, it runs as a list does.
PlansTypes == {"Plan", "list", "tuple"}

\* What a test point raises with: no argument, or a reason in two parts
\* (the second with the characters the escaping rule is about and a space
\* at its end), or a value that is no str.
NoArgs == << >>
TextArgs == << Str(<< "not" >>), Str(<< "here", SP, HASH, BSL, "x", SP >>) >>
BadArgs == << NonStr >>

ExceptionArgs(kind) ==
    CASE kind = "Skip" -> { NoArgs, TextArgs, BadArgs }
      [] kind = "ToDo" -> { TextArgs, BadArgs }
      [] kind = "Fail" -> { TextArgs }
      [] kind = "BailOut" -> { NoArgs, TextArgs, BadArgs }
      [] kind = "Exception" -> { TextArgs, BadArgs }

NoExc == [kind |-> "none", args |-> << >>]

VARIABLES
    plans,        \* execute_test_plans' argument: the Plan(s), as a sequence
    plans_type,   \* type(plans)
    root_plan,    \* execute_test_plans' argument
    pc,           \* where execute_test_plans is
    single_plan,  \* its local of that name
    plan,         \* the position in plans of its local plan; 0 for None
    results,      \* its local of that name
    index,        \* _execute_test_plan's loop index
    success,      \* _execute_test_plan's local of that name
    exc,          \* the exception in flight, if any
    stream,       \* output_stream
    invoked,      \* the test points called so far and what each raised
    returned      \* what each completed _execute_test_plan call returned

\* The state of test discovery: the module's globals, find_test_plans'
\* position, the interpreter's module cache, and what the calls did.
VARIABLES
    _test_plans,         \* the global of that name
    _current_file_name,  \* the global of that name
    directory,           \* what os.ilistdir(path) yields, in its order
    entry,               \* find_test_plans' position in that listing
    fpc,                 \* where find_test_plans is
    modules,             \* the modules the interpreter holds as imported
    found,               \* what each completed find_test_plans call returned
    imports,             \* the imports of the call at hand: file, whether it ran
    outside              \* how the last build_plan call outside discovery ended

execution_vars ==
    << plans, plans_type, root_plan, pc, single_plan, plan, results,
       index, success, exc, stream, invoked, returned >>

discovery_vars ==
    << _test_plans, _current_file_name, directory, entry, fpc, modules,
       found, imports, outside >>

vars == << execution_vars, discovery_vars >>

\* The module is loaded and find_test_plans has not been called.
NoDiscovery ==
    /\ _test_plans = << >>
    /\ _current_file_name = None
    /\ directory = << >>
    /\ entry = 0
    /\ fpc = "idle"
    /\ modules = {}
    /\ found = << >>
    /\ imports = << >>
    /\ outside = "none"

Init ==
    /\ plans \in PlanSequences
    /\ plans_type \in PlansTypes
    /\ plans_type = "Plan" => Len(plans) = 1
    /\ plans_type = "tuple" => Len(plans) <= 1
    /\ root_plan \in BOOLEAN
    /\ pc = "start"
    /\ single_plan = FALSE
    /\ plan = 0
    /\ results = << >>
    /\ index = 0
    /\ success = TRUE
    /\ exc = NoExc
    /\ stream = NewStream
    /\ invoked = << >>
    /\ returned = << >>
    /\ NoDiscovery

\* The indentation of a sub-plan's lines in multi mode.
SubPlanIndent == 4

\* Mutant: the plan runner is handed the writer of the session in both modes.
Prefix_SessionWriter == _build_stream_writer(0)

\* The writer _execute_test_plan is running with.
Prefix ==
    IF single_plan THEN _build_stream_writer(0)
    ELSE _build_stream_writer(SubPlanIndent)

ThePlan == plans[plan]
NPoints == Len(ThePlan.test_points)
TestDescription == ThePlan.test_points[index].description

\* Mutant: multi mode writes the root plan line whatever root_plan says.
Begin_IgnoresRootFlag ==
    /\ pc = "start"
    /\ LET single == plans_type = "Plan"
                     \/ (plans_type \in {"list", "tuple"} /\ Len(plans) = 1)
           header == _writer(stream, _build_stream_writer(0),
                             << "TAP", SP, "version", SP, "14" >>)
       IN  /\ single_plan' = single
           /\ plan' = IF single THEN 1 ELSE 0
           /\ stream' = IF ~single
                        THEN _writer(header, _build_stream_writer(0),
                                     << "1..", ToString(Len(plans)) >>)
                        ELSE header
           /\ pc' = IF single THEN "call" ELSE "loop"
    /\ UNCHANGED discovery_vars
    /\ UNCHANGED << plans, plans_type, root_plan, results, index, success,
                    exc, invoked, returned >>

\* Mutant: the root plan line goes out ahead of the header.
Begin_HeaderSecond ==
    /\ pc = "start"
    /\ LET single == plans_type = "Plan"
                     \/ (plans_type \in {"list", "tuple"} /\ Len(plans) = 1)
           rooted == IF ~single /\ root_plan
                     THEN _writer(stream, _build_stream_writer(0),
                                  << "1..", ToString(Len(plans)) >>)
                     ELSE stream
       IN  /\ single_plan' = single
           /\ plan' = IF single THEN 1 ELSE 0
           /\ stream' = _writer(rooted, _build_stream_writer(0),
                                << "TAP", SP, "version", SP, "14" >>)
           /\ pc' = IF single THEN "call" ELSE "loop"
    /\ UNCHANGED discovery_vars
    /\ UNCHANGED << plans, plans_type, root_plan, results, index, success,
                    exc, invoked, returned >>

\* Mutant: the root plan line is written before the mode is looked at.
Begin_RootLineFirst ==
    /\ pc = "start"
    /\ LET single == plans_type = "Plan"
                     \/ (plans_type \in {"list", "tuple"} /\ Len(plans) = 1)
           header == _writer(stream, _build_stream_writer(0),
                             << "TAP", SP, "version", SP, "14" >>)
       IN  /\ single_plan' = single
           /\ plan' = IF single THEN 1 ELSE 0
           /\ stream' = IF root_plan
                        THEN _writer(header, _build_stream_writer(0),
                                     << "1..", ToString(Len(plans)) >>)
                        ELSE header
           /\ pc' = IF single THEN "call" ELSE "loop"
    /\ UNCHANGED discovery_vars
    /\ UNCHANGED << plans, plans_type, root_plan, results, index, success,
                    exc, invoked, returned >>

\* execute_test_plans up to its first call of _execute_test_plan: mode
\* selection, the header and, in multi mode, the root plan line.
Begin ==
    /\ pc = "start"
    /\ LET single == plans_type = "Plan"
                     \/ (plans_type \in {"list", "tuple"} /\ Len(plans) = 1)
           header == _writer(stream, _build_stream_writer(0),
                             << "TAP", SP, "version", SP, "14" >>)
       IN  /\ single_plan' = single
           /\ plan' = IF single THEN 1 ELSE 0
           /\ stream' = IF ~single /\ root_plan
                        THEN _writer(header, _build_stream_writer(0),
                                     << "1..", ToString(Len(plans)) >>)
                        ELSE header
           /\ pc' = IF single THEN "call" ELSE "loop"
    /\ UNCHANGED discovery_vars
    /\ UNCHANGED << plans, plans_type, root_plan, results, index, success,
                    exc, invoked, returned >>

\* Mutant: the skipped flag is not looked at.
RunsNoPoint_IgnoresSkipped(p) == p.test_points = << >>

\* if not plan.test_points or plan.skipped
RunsNoPoint(p) == p.test_points = << >> \/ p.skipped

\* Mutant: the description goes into the SKIP directive as it is.
PlanHeader_Unescaped(st, prefix, p) ==
    IF RunsNoPoint(p)
    THEN _writer(st, prefix,
                 << "1..", "0" >>
                 \o (IF Truthy(p.description)
                     THEN << SP, HASH, SP, "SKIP", SP >> \o p.description
                     ELSE << >>))
    ELSE _writer(st, prefix, << "1..", ToString(Len(p.test_points)) >>)

\* The start of _execute_test_plan(p) on stream st: the plan line.
PlanHeader(st, prefix, p) ==
    IF RunsNoPoint(p)
    THEN _writer(st, prefix,
                 << "1..", "0" >>
                 \o (IF Truthy(p.description)
                     THEN << SP, HASH, SP, "SKIP", SP >>
                          \o Format(_escape_string(p.description))
                     ELSE << >>))
    ELSE _writer(st, prefix, << "1..", ToString(Len(p.test_points)) >>)

\* Single mode: _execute_test_plan(plan, writer) is entered; a skipped or
\* empty plan returns True at once and execute_test_plans returns.
CallSingle ==
    /\ pc = "call"
    /\ stream' = PlanHeader(stream, Prefix, ThePlan)
    /\ IF RunsNoPoint(ThePlan)
       THEN /\ returned' = Append(returned, TRUE)
            /\ pc' = "done"
            /\ UNCHANGED << index, success >>
       ELSE /\ success' = TRUE
            /\ index' = 1
            /\ pc' = "points"
            /\ UNCHANGED returned
    /\ UNCHANGED discovery_vars
    /\ UNCHANGED << plans, plans_type, root_plan, single_plan, plan, results,
                    exc, invoked >>

\* Multi mode: the next iteration of the loop over plans: the comment line,
\* then _execute_test_plan is entered with the indenting writer.
CallMulti ==
    /\ pc = "loop"
    /\ plan < Len(plans)
    /\ plan' = plan + 1
    /\ LET p == plans[plan + 1]
           commented == _writer(stream, _build_stream_writer(0),
                                << HASH, SP, "Tests", SP, "for", SP >>
                                \o p.file_name)
       IN  /\ stream' = PlanHeader(commented,
                                   _build_stream_writer(SubPlanIndent), p)
           /\ IF RunsNoPoint(p)
              THEN /\ returned' = Append(returned, TRUE)
                   /\ results' = Append(results, TRUE)
                   /\ pc' = "loop"
                   /\ UNCHANGED << index, success >>
              ELSE /\ success' = TRUE
                   /\ index' = 1
                   /\ pc' = "points"
                   /\ UNCHANGED << returned, results >>
    /\ UNCHANGED discovery_vars
    /\ UNCHANGED << plans, plans_type, root_plan, single_plan, exc, invoked >>


(***************************************************************************)
(* One iteration of _execute_test_plan's loop: the test point is called    *)
(* and what it raises, if anything, selects the branch.  A branch gives    *)
(* the stream and the success flag it leaves, and the exception that       *)
(* leaves the loop, if one does.                                           *)
(***************************************************************************)

TypeError == [kind |-> "TypeError", args |-> << Str(<< "join" >>) >>]

Continue(st, succ) == [stream |-> st, success |-> succ, exc |-> NoExc]
Leave(st, succ, e) == [stream |-> st, success |-> succ, exc |-> e]

\* Mutant: a passing test point sets the flag.
OnPass_Resets(st, prefix, description, i, succ) ==
    Continue(_write_test_result(st, prefix, description, i, TRUE, None, None),
             TRUE)

\* The test point returned.
OnPass(st, prefix, description, i, succ) ==
    Continue(_write_test_result(st, prefix, description, i, TRUE, None, None),
             succ)

\* Mutant: a skipped test point fails the plan.
OnSkip_Fails(st, prefix, description, i, succ, args) ==
    IF JoinRaises(args) THEN Leave(st, succ, TypeError)
    ELSE Continue(_write_test_result(st, prefix, description, i, TRUE,
                                     << "SKIP" >>, Join(args)),
                  FALSE)

\* except Skip
OnSkip(st, prefix, description, i, succ, args) ==
    IF JoinRaises(args) THEN Leave(st, succ, TypeError)
    ELSE Continue(_write_test_result(st, prefix, description, i, TRUE,
                                     << "SKIP" >>, Join(args)),
                  succ)

\* except ToDo
OnToDo(st, prefix, description, i, succ, args) ==
    IF JoinRaises(args) THEN Leave(st, succ, TypeError)
    ELSE Continue(_write_test_result(st, prefix, description, i, FALSE,
                                     << "TODO" >>, Join(args)),
                  succ)

\* Mutant: the flag is left as it was.
OnFail_KeepsSuccess(st, prefix, description, i, succ) ==
    Continue(_write_test_result(st, prefix, description, i, FALSE, None, None),
             succ)

\* except Fail
OnFail(st, prefix, description, i, succ) ==
    Continue(_write_test_result(st, prefix, description, i, FALSE, None, None),
             FALSE)

\* Mutant: the BailOut is taken for a failure and the loop goes on.
OnBailOut_Swallowed(st, succ, args) == Continue(st, FALSE)

\* except BailOut: raise
OnBailOut(st, succ, args) ==
    Leave(st, succ, [kind |-> "BailOut", args |-> args])

\* for line in ....splitlines(): stream_writer(f"  {line.rstrip()}")
RECURSIVE WriteDiagnostic(_, _, _)
WriteDiagnostic(st, prefix, lines) ==
    IF lines = << >> THEN st
    ELSE WriteDiagnostic(
             _writer(st, prefix, << SP, SP >> \o RStrip(Head(lines))),
             prefix, Tail(lines))

\* except Exception
OnError(st, prefix, description, i, succ, args, trace) ==
    LET line == _write_test_result(st, prefix, description, i, FALSE,
                                   None, None)
    IN  IF JoinRaises(args) THEN Leave(line, succ, TypeError)
        ELSE Continue(
                 WriteDiagnostic(line, prefix,
                                 SplitLines(_format_exception(args, trace))),
                 FALSE)

\* Mutant: the last clause is a bare except, which takes the object for a
\* failure; the loop goes on.
OnBaseException_Absorbed(st, succ) == Continue(st, FALSE)

\* A BaseException that is no Exception matches no except clause.
OnBaseException(st, succ) ==
    Leave(st, succ, [kind |-> "BaseException", args |-> << >>])

\* The iteration's effect on the state, given its branch's result.
Iterate(r, kind, args) ==
    /\ pc = "points"
    /\ index <= NPoints
    /\ invoked' = Append(invoked, [plan |-> plan, index |-> index,
                                   raised |-> kind, args |-> args])
    /\ stream' = r.stream
    /\ success' = r.success
    /\ exc' = r.exc
    /\ IF r.exc = NoExc
       THEN /\ index' = index + 1
            /\ pc' = "points"
       ELSE /\ index' = index
            /\ pc' = "unwind"
    /\ UNCHANGED discovery_vars
    /\ UNCHANGED << plans, plans_type, root_plan, single_plan, plan, results,
                    returned >>

CanRun == pc = "points" /\ index <= NPoints

TestPass ==
    /\ CanRun
    /\ Iterate(OnPass(stream, Prefix, TestDescription, index, success),
               "none", NoArgs)

TestSkip ==
    /\ CanRun
    /\ \E args \in ExceptionArgs("Skip") :
          Iterate(OnSkip(stream, Prefix, TestDescription, index, success,
                         args), "Skip", args)

TestToDo ==
    /\ CanRun
    /\ \E args \in ExceptionArgs("ToDo") :
          Iterate(OnToDo(stream, Prefix, TestDescription, index, success,
                         args), "ToDo", args)

TestFail ==
    /\ CanRun
    /\ \E args \in ExceptionArgs("Fail") :
          Iterate(OnFail(stream, Prefix, TestDescription, index, success),
                  "Fail", args)

TestBailOut ==
    /\ CanRun
    /\ \E args \in ExceptionArgs("BailOut") :
          Iterate(OnBailOut(stream, success, args), "BailOut", args)

TestError ==
    /\ CanRun
    /\ \E args \in ExceptionArgs("Exception") :
          Iterate(OnError(stream, Prefix, TestDescription, index, success,
                          args, Traceback), "Exception", args)

TestBaseException ==
    /\ CanRun
    /\ Iterate(OnBaseException(stream, success), "BaseException", NoArgs)

\* Mutant: the plan runner takes the test points off the plan as it goes, and
\* the plan is empty when it returns.
ReturnPlan_Consumed ==
    /\ pc = "points"
    /\ index > NPoints
    /\ returned' = Append(returned, success)
    /\ plans' = [plans EXCEPT ![plan].test_points = << >>]
    /\ IF single_plan
       THEN /\ pc' = "done"
            /\ UNCHANGED results
       ELSE /\ results' = Append(results, success)
            /\ pc' = "loop"
    /\ UNCHANGED discovery_vars
    /\ UNCHANGED << plans_type, root_plan, single_plan, plan, index,
                    success, exc, stream, invoked >>

\* The loop is over: _execute_test_plan returns success.  In single mode
\* execute_test_plans returns; in multi mode the result is recorded.
ReturnPlan ==
    /\ pc = "points"
    /\ index > NPoints
    /\ returned' = Append(returned, success)
    /\ IF single_plan
       THEN /\ pc' = "done"
            /\ UNCHANGED results
       ELSE /\ results' = Append(results, success)
            /\ pc' = "loop"
    /\ UNCHANGED discovery_vars
    /\ UNCHANGED << plans, plans_type, root_plan, single_plan, plan, index,
                    success, exc, stream, invoked >>

\* Mutant: single mode has no except clause; the BailOut leaves
\* execute_test_plans.
CatchBailOut_MultiOnly ==
    /\ pc = "unwind"
    /\ exc.kind = "BailOut"
    /\ IF JoinRaises(exc.args)
       THEN /\ exc' = TypeError
            /\ UNCHANGED << stream, pc >>
       ELSE IF single_plan
       THEN /\ pc' = "escaped"
            /\ UNCHANGED << stream, exc >>
       ELSE /\ stream' = _writer(stream, _build_stream_writer(0),
                                 _format_bailout_exception(exc.args))
            /\ exc' = NoExc
            /\ pc' = "done"
    /\ UNCHANGED discovery_vars
    /\ UNCHANGED << plans, plans_type, root_plan, single_plan, plan, results,
                    index, success, invoked, returned >>

\* Mutant: the bail-out line is written and the loop over the plans goes on.
CatchBailOut_NoQuit ==
    /\ pc = "unwind"
    /\ exc.kind = "BailOut"
    /\ IF JoinRaises(exc.args)
       THEN /\ exc' = TypeError
            /\ UNCHANGED << stream, pc >>
       ELSE /\ stream' = _writer(stream, _build_stream_writer(0),
                                 _format_bailout_exception(exc.args))
            /\ exc' = NoExc
            /\ pc' = "loop"
    /\ UNCHANGED discovery_vars
    /\ UNCHANGED << plans, plans_type, root_plan, single_plan, plan, results,
                    index, success, invoked, returned >>

\* except BailOut as exception: writer(_format_bailout_exception(exception)),
\* then return.  Formatting the exception raises if its arguments do not
\* join.
CatchBailOut ==
    /\ pc = "unwind"
    /\ exc.kind = "BailOut"
    /\ IF JoinRaises(exc.args)
       THEN /\ exc' = TypeError
            /\ UNCHANGED << stream, pc >>
       ELSE /\ stream' = _writer(stream, _build_stream_writer(0),
                                 _format_bailout_exception(exc.args))
            /\ exc' = NoExc
            /\ pc' = "done"
    /\ UNCHANGED discovery_vars
    /\ UNCHANGED << plans, plans_type, root_plan, single_plan, plan, results,
                    index, success, invoked, returned >>

\* Any other exception leaves execute_test_plans.
Escape ==
    /\ pc = "unwind"
    /\ exc.kind # "BailOut"
    /\ pc' = "escaped"
    /\ UNCHANGED discovery_vars
    /\ UNCHANGED << plans, plans_type, root_plan, single_plan, plan, results,
                    index, success, exc, stream, invoked, returned >>

\* Mutant: the roll-up lines are numbered from 0, as enumerate does unless
\* told where to start.
RECURSIVE RollUp_FromZero(_, _)
RollUp_FromZero(st, i) ==
    IF i > Len(plans) \/ i > Len(results) THEN st
    ELSE RollUp_FromZero(
             _writer(st, _build_stream_writer(0),
                     ResultWord(results[i])
                     \o << SP, ToString(i - 1) >>
                     \o (IF Truthy(plans[i].description)
                         THEN << SP, "-", SP >> \o plans[i].description
                         ELSE << >>)),
             i + 1)

\* The roll-up lines: for index, (plan, success) in enumerate(zip(plans,
\* results), start=1).
RECURSIVE RollUp(_, _)
RollUp(st, i) ==
    IF i > Len(plans) \/ i > Len(results) THEN st
    ELSE RollUp(
             _writer(st, _build_stream_writer(0),
                     ResultWord(results[i])
                     \o << SP, ToString(i) >>
                     \o (IF Truthy(plans[i].description)
                         THEN << SP, "-", SP >> \o plans[i].description
                         ELSE << >>)),
             i + 1)

\* Multi mode, every plan has run.
Finish ==
    /\ pc = "loop"
    /\ plan = Len(plans)
    /\ stream' = IF root_plan THEN RollUp(stream, 1) ELSE stream
    /\ pc' = "done"
    /\ UNCHANGED discovery_vars
    /\ UNCHANGED << plans, plans_type, root_plan, single_plan, plan, results,
                    index, success, exc, invoked, returned >>

Next ==
    \/ Begin
    \/ CallSingle
    \/ CallMulti
    \/ TestPass
    \/ TestSkip
    \/ TestToDo
    \/ TestFail
    \/ TestBailOut
    \/ TestError
    \/ TestBaseException
    \/ ReturnPlan
    \/ CatchBailOut
    \/ Escape
    \/ Finish

Spec == Init /\ [][Next]_vars

(***************************************************************************)
(* Reading the report back.                                                *)
(***************************************************************************)

\* The lines that have reached the consumer, as splitlines() gives them.
Lines ==
    stream.out.lines
    \o (IF stream.out.rest = << >> THEN << >> ELSE << stream.out.rest >>)

\* The position of the first token of the line from i on that is no space;
\* Len(line) + 1 without one.
RECURSIVE FirstNonSpace(_, _)
FirstNonSpace(line, i) ==
    IF i > Len(line) \/ line[i] # SP THEN i ELSE FirstNonSpace(line, i + 1)

Indent(line) == FirstNonSpace(line, 1) - 1
Unindent(line) == SubSeq(line, FirstNonSpace(line, 1), Len(line))
FirstToken(line) ==
    LET n == FirstNonSpace(line, 1)
    IN  IF n > Len(line) THEN "" ELSE line[n]

IsResultLine(line) == FirstToken(line) \in {"ok", "not ok"}
IsCommentLine(line) == line # << >> /\ line[1] = HASH
IsBailOutLine(line) == line # << >> /\ line[1] = "Bail"

\* Whether a line of the report ends the run of the plan runner that was
\* writing before it: a line that is not indented (multi mode), a bail-out
\* line (single mode).
EndsRun(line) ==
    IF single_plan THEN IsBailOutLine(line)
    ELSE ~(line # << >> /\ line[1] = SP)

\* The position of the first line from i on that ends the run; Len(lines) + 1
\* without one.
RECURSIVE RunEnd(_, _)
RunEnd(lines, i) ==
    IF i > Len(lines) \/ EndsRun(lines[i]) THEN i ELSE RunEnd(lines, i + 1)

\* The position of the k-th comment line from i on; Len(lines) + 1 without
\* one.
RECURSIVE CommentAt(_, _, _)
CommentAt(lines, k, i) ==
    IF i > Len(lines) THEN i
    ELSE IF IsCommentLine(lines[i])
         THEN (IF k = 1 THEN i ELSE CommentAt(lines, k - 1, i + 1))
         ELSE CommentAt(lines, k, i + 1)

\* The lines the plan runner wrote for the k-th plan, in the report L: those
\* after the header (single mode) or after the k-th comment line (multi
\* mode), up to the line that ends the run.
RunLinesIn(L, k) ==
    LET from == IF single_plan THEN 2 ELSE CommentAt(L, k, 1) + 1
    IN  SubSeq(L, from, RunEnd(L, from) - 1)

\* The plans whose run has begun, and those whose run is over.
Started == IF pc \in {"start", "call"} THEN {} ELSE 1..plan
RunOver(k) == k \in Started /\ (k < plan \/ pc # "points")

\* The position of the j-th result line from i on; Len(lines) + 1 without
\* one.
RECURSIVE ResultAt(_, _, _)
ResultAt(lines, j, i) ==
    IF i > Len(lines) THEN i
    ELSE IF IsResultLine(lines[i])
         THEN (IF j = 1 THEN i ELSE ResultAt(lines, j - 1, i + 1))
         ELSE ResultAt(lines, j, i + 1)

\* Result line j of the lines, with the lines from it up to the next result
\* line.
FromResult(lines, j) ==
    LET n == ResultAt(lines, j, 1)
    IN  IF n > Len(lines) THEN << >>
        ELSE SubSeq(lines, n, ResultAt(lines, 1, n + 1) - 1)

\* All the lines written for test point i of plan k.
PointLinesIn(L, k, i) == FromResult(RunLinesIn(L, k), i)

\* What the test points of plan k raised, in the order they ran.
Log(k) == SelectSeq(invoked, LAMBDA e : e.plan = k)
Entries == { invoked[j] : j \in 1..Len(invoked) }
Raised(k) == { e.raised : e \in { x \in Entries : x.plan = k } }

\* The prefix every line of plan k's run carries.
RunIndent == IF single_plan THEN << >> ELSE << SP, SP, SP, SP >>

\* The escaping rule, character by character.
EscapeChar(c) ==
    IF c = BSL THEN << BSL, BSL >>
    ELSE IF c = HASH THEN << BSL, HASH >> ELSE << c >>

RECURSIVE EscapeAll(_)
EscapeAll(text) ==
    IF text = << >> THEN << >>
    ELSE EscapeChar(Head(text)) \o EscapeAll(Tail(text))

\* The reason text of a directive: the messages joined by a space, escaped,
\* without surrounding whitespace; with the space that precedes it.
Reason(args) ==
    IF Strip(Join(args)) = << >> THEN << >>
    ELSE << SP >> \o EscapeAll(Strip(Join(args)))

\* " - description", if the test point has one.
Described(k, i) ==
    IF plans[k].test_points[i].description = None THEN << >>
    ELSE << SP, "-", SP >> \o plans[k].test_points[i].description

\* The result line of test point i of plan k.
ResultLine(k, i, word, directive) ==
    RunIndent \o << word, SP, ToString(i) >> \o Described(k, i) \o directive

\* Whether the run of plan k ended by _execute_test_plan returning, and what
\* it returned; runs return in the order of the plans.
HasReturned(k) == k \in Started /\ k <= Len(returned)


Last(seq) == seq[Len(seq)]

\* The step in which a test point is called and raises `kind`.
Raises(kind) ==
    /\ Len(invoked') = Len(invoked) + 1
    /\ Last(invoked').raised = kind

\* The plan's success after test point e: the flag while the plan runs, the
\* returned value once it has returned.
SuccessIs(e, value) ==
    /\ (e.plan = plan /\ pc = "points") => success = value
    /\ HasReturned(e.plan) => returned[e.plan] = value

Absorbed == {"none", "Skip", "ToDo", "Fail", "Exception"}

(***************************************************************************)
(* The claims.                                                             *)
(***************************************************************************)

\* C1: a plan of N >= 1 test points that is not skipped and in which no test
\* point raises BailOut writes the plan line 1..N first and then exactly N
\* result lines, numbered 1, 2, ..., N in this order, whatever the test
\* points raise among Skip and ToDo (with text reasons), Fail and other
\* errors.
C1_PlanLineThenNResults ==
    \A k \in Started :
        LET N == Len(plans[k].test_points)
            S == RunLinesIn(Lines, k)
            R == SelectSeq(S, IsResultLine)
        IN  ~RunsNoPoint(plans[k]) =>
              /\ S # << >>
              /\ S[1] = RunIndent \o << "1..", ToString(N) >>
              /\ Len(R) <= N
              /\ \A j \in 1..Len(R) :
                    SubSeq(Unindent(R[j]), 2, 3) = << SP, ToString(j) >>
              /\ ( /\ RunOver(k)
                   /\ Raised(k) \subseteq Absorbed
                   /\ \A e \in Entries :
                         (e.plan = k /\ e.raised \in {"Skip", "ToDo"})
                           => ~JoinRaises(e.args)
                 ) => Len(R) = N

\* C2: a test point raising ToDo(reason) at index i gets the result line
\* "not ok i [- description] # TODO reason", and the plan's success becomes
\* false.
C2_ToDoFailsPlan ==
    LET L == Lines
    IN  \A e \in Entries :
        (e.raised = "ToDo" /\ ~JoinRaises(e.args)) =>
          /\ PointLinesIn(L, e.plan, e.index) =
               << ResultLine(e.plan, e.index, "not ok",
                             << SP, HASH, SP, "TODO" >> \o Reason(e.args)) >>
          /\ SuccessIs(e, FALSE)

\* C3: a test point raising Fail at index i gets exactly one line,
\* "not ok i [- description]", with no directive and no diagnostic block, and
\* the plan's success becomes false; a single plan whose point 1 passes and
\* whose point 2 raises Fail yields the header, "1..2", "ok 1", "not ok 2"
\* and returns false.
C3_FailLine ==
    /\ LET L == Lines
       IN  \A e \in Entries :
          e.raised = "Fail" =>
            /\ PointLinesIn(L, e.plan, e.index) =
                 << ResultLine(e.plan, e.index, "not ok", << >>) >>
            /\ SuccessIs(e, FALSE)
    /\ ( /\ single_plan
         /\ pc = "done"
         /\ plans[1].description # None
         /\ [j \in 1..Len(invoked) |-> invoked[j].raised] = << "none", "Fail" >>
       ) => /\ Lines = << << "TAP", SP, "version", SP, "14" >>,
                          << "1..", "2" >>,
                          << "ok", SP, "1" >>,
                          << "not ok", SP, "2" >> >>
            /\ returned = << FALSE >>

C3_Witness ==
    /\ single_plan
    /\ pc = "done"
    /\ plans[1].description # None
    /\ [j \in 1..Len(invoked) |-> invoked[j].raised] = << "none", "Fail" >>

\* The diagnostic block of an error with the given arguments, as the lines
\* of plan k's run.
DiagnosticBlock(args) ==
    LET In(line) == RunIndent \o << SP, SP >> \o line
    IN  << In(<< "---" >>),
           In(RStrip(<< "exception:", SP >> \o Join(args))),
           In(<< "traceback:", SP, "|-" >>),
           In(<< SP, SP, "Traceback" >>),
           In(<< SP, SP, SP, SP, "File" >>),
           In(<< SP, SP, "Error" >>),
           In(<< "..." >>) >>

\* C4: a test point raising any error other than Skip, ToDo, Fail or BailOut
\* at index i gets the result line "not ok i" followed at once by a
\* diagnostic block ("---", "exception: <message>", "traceback: |-", the
\* trace lines, "..."), and the plan's success becomes false.
C4_ErrorDiagnostic ==
    LET L == Lines
    IN  \A e \in Entries :
        e.raised = "Exception" =>
          LET written == PointLinesIn(L, e.plan, e.index)
          IN  /\ written # << >>
              /\ written[1] = ResultLine(e.plan, e.index, "not ok", << >>)
              /\ Len(written) >= 2
              /\ written[2] = RunIndent \o << SP, SP, "---" >>
              /\ Last(written) = RunIndent \o << SP, SP, "..." >>
              /\ ~JoinRaises(e.args) =>
                    Tail(written) = DiagnosticBlock(e.args)
              /\ SuccessIs(e, FALSE)


\* The kinds the test points of plan k raised, in the order they ran.
Kinds(k) == [j \in 1..Len(Log(k)) |-> Log(k)[j].raised]

C5_SkipLine ==
    LET L == Lines
    IN  \A e \in Entries :
        (e.raised = "Skip" /\ ~JoinRaises(e.args)) =>
            PointLinesIn(L, e.plan, e.index) =
              << ResultLine(e.plan, e.index, "ok",
                            << SP, HASH, SP, "SKIP" >> \o Reason(e.args)) >>

C5_OnlySkips ==
    \A k \in Started :
        (HasReturned(k) /\ Raised(k) \subseteq {"none", "Skip"}) =>
            returned[k] = TRUE

\* C5: a test point raising Skip(reason) at index i gets the result line
\* "ok i [- description] # SKIP reason"; the plan's success keeps the value
\* it had before the test point ran, and a plan in which nothing but Skip is
\* raised returns true.
C5_SkipKeepsSuccess ==
    /\ [](C5_SkipLine /\ C5_OnlySkips)
    /\ [][Raises("Skip") => success' = success]_vars

C5_Witness ==
    \E k \in Started :
        /\ HasReturned(k)
        /\ Kinds(k) = << "Fail", "Skip" >>
        /\ Log(k)[2].args = TextArgs
        /\ returned[k] = FALSE

\* C6: for a plan that is skipped or holds no test point, the plan runner
\* writes exactly one line, "1..0", followed by " # SKIP <escaped
\* description>" exactly if the plan has a description; it writes no result
\* line however many test points the plan holds, and returns true.
C6_SkippedPlanLine ==
    \A k \in Started :
        RunsNoPoint(plans[k]) =>
          /\ RunLinesIn(Lines, k) =
               << RunIndent \o << "1..", "0" >>
                  \o (IF plans[k].description # None
                      THEN << SP, HASH, SP, "SKIP", SP >>
                           \o EscapeAll(plans[k].description)
                      ELSE << >>) >>
          /\ HasReturned(k)
          /\ returned[k] = TRUE

C6_Witness ==
    \E k \in Started :
        /\ plans[k].skipped
        /\ plans[k].test_points # << >>
        /\ plans[k].description # None
        /\ pc = "done"

\* C7: in every run of execute_test_plans no test point of a plan with
\* skipped = true is ever called.
C7_SkippedNeverInvoked ==
    \A e \in Entries : ~plans[e.plan].skipped

C7_Witness ==
    /\ pc = "done"
    /\ invoked # << >>
    /\ \E k \in Started : plans[k].skipped /\ plans[k].test_points # << >>

C8_SuccessIffNoFailure ==
    \A k \in Started :
        ( /\ HasReturned(k)
          /\ ~RunsNoPoint(plans[k])
          /\ Raised(k) \subseteq {"none", "Skip", "Fail", "Exception"}
        ) => (returned[k] <=> Raised(k) \cap {"Fail", "Exception"} = {})

\* C8: for a plan that runs to completion with outcomes among passed,
\* skipped, failed and errored, the success returned is true exactly if no
\* test point failed or errored; once the flag is false no later outcome of
\* the same plan makes it true again.
C8_SuccessFlag ==
    /\ []C8_SuccessIffNoFailure
    /\ [][(pc = "points" /\ pc' = "points" /\ ~success) => ~success']_vars

C8_Witness ==
    \E k \in Started :
        /\ HasReturned(k)
        /\ Kinds(k) = << "Exception", "none" >>
        /\ returned[k] = FALSE

C9_AfterBailOut ==
    LET L == Lines
    IN  \A j \in 1..Len(invoked) :
          invoked[j].raised = "BailOut" =>
            /\ j = Len(invoked)
            /\ Len(SelectSeq(RunLinesIn(L, invoked[j].plan), IsResultLine))
                 = invoked[j].index - 1
            /\ ~HasReturned(invoked[j].plan)

\* C9: when the test point at index i raises BailOut, the plan runner writes
\* no result line for i, calls no later test point, leaves the lines written
\* so far as they are, and lets the BailOut go on to its caller as it is
\* instead of returning a value.
C9_BailOutPropagates ==
    /\ []C9_AfterBailOut
    /\ [][Raises("BailOut") =>
            /\ stream' = stream
            /\ exc' = [kind |-> "BailOut", args |-> Last(invoked').args]
            /\ pc' = "unwind"
            /\ returned' = returned]_vars

C9_Witness ==
    /\ pc = "unwind"
    /\ exc.kind = "BailOut"
    /\ index = 2
    /\ Len(invoked) = 2

IsSubPlanLine(line) ==
    line # << >> /\ line[1] = SP /\ FirstToken(line) = "1.."
IsRollUpLine(line) == line # << >> /\ line[1] \in {"ok", "not ok"}

\* C10: in multi mode, if the run of the k-th plan raises BailOut,
\* execute_test_plans writes the bail-out line and stops: no test point of a
\* later plan is called, no comment line or plan line of a later plan is
\* written, and no roll-up line is written, root plan or not.
C10_BailOutStopsSession ==
    LET L == Lines
    IN  \A e \in Entries :
          (e.raised = "BailOut" /\ ~single_plan /\ ~JoinRaises(e.args)) =>
            /\ pc \in {"unwind", "done"}
            /\ \A x \in Entries : x.plan <= e.plan
            /\ Len(SelectSeq(L, IsCommentLine)) = e.plan
            /\ Len(SelectSeq(L, IsSubPlanLine)) = e.plan
            /\ SelectSeq(L, IsRollUpLine) = << >>
            /\ Len(SelectSeq(L, IsBailOutLine)) = IF pc = "done" THEN 1 ELSE 0
            /\ pc = "done" =>
                 SubSeq(SelectSeq(L, IsBailOutLine)[1], 1, 3)
                   = << "Bail", SP, "out!" >>

C10_Witness ==
    /\ ~single_plan
    /\ root_plan
    /\ pc = "done"
    /\ Len(plans) = 2
    /\ ~RunsNoPoint(plans[2])
    /\ \E e \in Entries : e.raised = "BailOut" /\ e.plan = 1

Header == << "TAP", SP, "version", SP, "14" >>
NonEmpty(line) == line # << >>

\* The bail-out line of a BailOut raised with a reason that is not blank.
BailOutLine(args) == << "Bail", SP, "out!" >> \o Reason(args)

C12_BailOutLineLast ==
    \A e \in Entries :
        (e.raised = "BailOut" /\ ~JoinRaises(e.args) /\ pc = "done") =>
          /\ stream.buf = << >>
          /\ stream.out.rest = << >>
          /\ stream.out.lines # << >>
          /\ IsBailOutLine(Last(stream.out.lines))

\* The test points execute_test_plans is to call, in the order of the plans
\* and, within a plan, of registration: those of the plans from k on.
RECURSIVE CallsFrom(_)
CallsFrom(k) ==
    IF k > Len(plans) THEN << >>
    ELSE (IF RunsNoPoint(plans[k]) THEN << >>
          ELSE [i \in 1..Len(plans[k].test_points) |-> << k, i >>])
         \o CallsFrom(k + 1)

Calls == [j \in 1..Len(invoked) |-> << invoked[j].plan, invoked[j].index >>]

\* C13: if no test point raises BailOut, then whatever the test points raise
\* among Skip and ToDo (with text reasons), Fail and other errors, nothing
\* stops the plan or the session: the test points of the plans that are not
\* skipped are called once each, plans in input order and test points in
\* registration order, all of them by the time execute_test_plans returns,
\* and no error leaves execute_test_plans.
C13_AllPointsRunInOrder ==
    ( \A e \in Entries :
         /\ e.raised \in Absorbed
         /\ e.raised \in {"Skip", "ToDo"} => ~JoinRaises(e.args)
    ) => /\ pc \notin {"unwind", "escaped"}
         /\ Len(Calls) <= Len(CallsFrom(1))
         /\ Calls = SubSeq(CallsFrom(1), 1, Len(Calls))
         /\ pc = "done" => Calls = CallsFrom(1)

\* The roll-up line of the k-th plan, given its recorded success.
RollUpLine(k, recorded) ==
    << (IF recorded THEN "ok" ELSE "not ok"), SP, ToString(k) >>
    \o (IF plans[k].description = None THEN << >>
        ELSE << SP, "-", SP >> \o plans[k].description)

\* C14: in multi mode with root_plan set, when all M plans have completed
\* without a bail-out, the report ends with exactly M roll-up lines, numbered
\* 1..M in input order, written after all the sub-plan output; line k reads
\* "ok k" if the success recorded for the k-th plan (what its run returned)
\* is true and "not ok k" otherwise, followed by " - <description>" exactly
\* if the plan has a description.  Until then no roll-up line is written.
C14_RollUpLines ==
    LET L == Lines
        M == Len(plans)
    IN  (~single_plan /\ pc # "start" /\ root_plan
         /\ \A e \in Entries : e.raised # "BailOut") =>
          /\ pc # "done" => SelectSeq(L, IsRollUpLine) = << >>
          /\ pc = "done" =>
               /\ Len(results) = M
               /\ results = returned
               /\ Len(L) >= M
               /\ SubSeq(L, Len(L) - M + 1, Len(L))
                    = [k \in 1..M |-> RollUpLine(k, results[k])]
               /\ Len(SelectSeq(L, IsRollUpLine)) = M

C14_Witness ==
    /\ ~single_plan
    /\ root_plan
    /\ pc = "done"
    /\ results = << FALSE, TRUE >>
    /\ plans[1].description # None
    /\ plans[2].description = None

\* Whether the branch taken for the test point of entry e writes a result
\* line.
WritesResult(e) ==
    /\ e.raised \in Absorbed
    /\ e.raised \in {"Skip", "ToDo"} => ~JoinRaises(e.args)

\* C15: every line is written with its line terminator and flushed at once:
\* whenever a test point is about to be called, a BailOut or another error is
\* on its way out, or execute_test_plans has returned, the sink holds nothing
\* that is written and not flushed, what has reached the consumer ends with a
\* complete line, and the lines of every test point called so far (the
\* result line, and the diagnostic block of an error) are among them.
C15_FlushedLines ==
    /\ stream.buf = << >>
    /\ stream.out.rest = << >>
    /\ \A k \in Started :
         LET S == RunLinesIn(stream.out.lines, k)
         IN  /\ Len(SelectSeq(S, IsResultLine))
                  = Cardinality({ e \in Entries :
                                    e.plan = k /\ WritesResult(e) })
             /\ \A e \in Entries :
                  (e.plan = k /\ e.raised = "Exception"
                   /\ ~JoinRaises(e.args)) =>
                      Tail(FromResult(S, e.index)) = DiagnosticBlock(e.args)

C15_Witness ==
    /\ pc = "points"
    /\ index = 2
    /\ index <= NPoints
    /\ invoked[Len(invoked)].raised = "Exception"
    /\ ~JoinRaises(invoked[Len(invoked)].args)
    /\ stream.out.lines # << >>

\* The lines the plan runner writes for the test point of entry e, given the
\* plan and the outcome alone.
PointReport(e) ==
    LET Line(word, directive) == ResultLine(e.plan, e.index, word, directive)
    IN  CASE e.raised = "none" -> << Line("ok", << >>) >>
          [] e.raised = "Skip" ->
               IF JoinRaises(e.args) THEN << >>
               ELSE << Line("ok", << SP, HASH, SP, "SKIP" >> \o Reason(e.args)) >>
          [] e.raised = "ToDo" ->
               IF JoinRaises(e.args) THEN << >>
               ELSE << Line("not ok",
                            << SP, HASH, SP, "TODO" >> \o Reason(e.args)) >>
          [] e.raised = "Fail" -> << Line("not ok", << >>) >>
          [] e.raised = "Exception" ->
               << Line("not ok", << >>) >>
               \o (IF JoinRaises(e.args) THEN << >>
                   ELSE DiagnosticBlock(e.args))
          [] OTHER -> << >>

RECURSIVE PointReports(_)
PointReports(log) ==
    IF log = << >> THEN << >>
    ELSE PointReport(Head(log)) \o PointReports(Tail(log))

\* The plan line of plan k.
PlanLine(k) ==
    RunIndent
    \o (IF RunsNoPoint(plans[k])
        THEN << "1..", "0" >>
             \o (IF plans[k].description = None THEN << >>
                 ELSE << SP, HASH, SP, "SKIP", SP >>
                      \o EscapeAll(plans[k].description))
        ELSE << "1..", ToString(Len(plans[k].test_points)) >>)

\* C16: execute_test_plans runs in single mode exactly if it is given one
\* Plan, bare or as a list or tuple of length one, and in multi mode
\* otherwise, an empty sequence included.  In single mode the report is the
\* header followed by the plan runner's lines, unindented, and after them
\* nothing but the lines of a bail-out: no root plan line, no comment line, no
\* roll-up line.  These lines depend on the plan and on what its test points
\* raise only, so they are the same with root_plan set or not and for the
\* bare plan and the one-element sequence.
C16_ModeSelection ==
    LET L == Lines
        R == IF L = << >> THEN << >> ELSE RunLinesIn(L, 1)
        After == SubSeq(L, Len(R) + 2, Len(L))
    IN  pc # "start" =>
          /\ single_plan <=> Len(plans) = 1
          /\ single_plan =>
               /\ plan = 1
               /\ L[1] = Header
               /\ pc # "call" =>
                    R = << PlanLine(1) >> \o PointReports(invoked)
               /\ pc = "call" => Len(L) = 1
               /\ After # << >> =>
                    /\ pc = "done"
                    /\ IsBailOutLine(After[1])
                    /\ \A j \in 2..Len(After) : After[j] = << >>
               /\ \A j \in 1..Len(L) : ~IsCommentLine(L[j])
          /\ (Len(plans) = 0 /\ pc = "done") =>
               L = << Header >>
                   \o (IF root_plan THEN << << "1..", "0" >> >> ELSE << >>)

C16_Witness ==
    /\ single_plan
    /\ plans_type = "tuple"
    /\ root_plan
    /\ pc = "done"
    /\ Len(invoked) = 2
    /\ returned = << FALSE >>

IsHeaderLine(line) == FirstToken(line) = "TAP"

\* C17: in every run of execute_test_plans, in single or multi mode, with an
\* empty plan sequence, with or without a bail-out later on, the first line
\* written is "TAP version 14", unindented; it is written once, and before
\* any test point is called.
C17_HeaderFirst ==
    LET L == Lines
    IN  /\ pc = "start" => (L = << >> /\ invoked = << >>)
        /\ pc # "start" =>
             /\ L # << >>
             /\ L[1] = Header
             /\ Len(SelectSeq(L, IsHeaderLine)) = 1

C17_Witness ==
    /\ ~single_plan
    /\ root_plan
    /\ pc = "done"
    /\ Len(invoked) = 2
    /\ invoked[2].raised = "BailOut"
    /\ invoked[2].plan = 2
    /\ Lines[1] = Header

\* What a TAP consumer makes of an escaped text: "\\" is "\" and "\#" is "#".
RECURSIVE Unescape(_)
Unescape(text) ==
    IF text = << >> THEN << >>
    ELSE IF Head(text) = BSL /\ Len(text) >= 2 /\ text[2] \in {BSL, HASH}
         THEN << text[2] >> \o Unescape(SubSeq(text, 3, Len(text)))
         ELSE << Head(text) >> \o Unescape(Tail(text))

\* Whether every "#" of the text is escaped.
RECURSIVE NoBareHash(_)
NoBareHash(text) ==
    IF text = << >> THEN TRUE
    ELSE IF Head(text) = BSL THEN NoBareHash(SubSeq(text, 3, Len(text)))
    ELSE Head(text) # HASH /\ NoBareHash(Tail(text))

\* Whether `emitted` is `original`, trimmed, under the escaping rule; a blank
\* original is emitted as nothing.
IsEscaped(emitted, original) ==
    /\ emitted = EscapeAll(Strip(original))
    /\ NoBareHash(emitted)
    /\ Unescape(emitted) = Strip(original)

\* The position of the directive word of a line; 0 without one.
DirectiveAt(line) ==
    IF \E p \in 1..Len(line) : line[p] \in {"SKIP", "TODO"}
    THEN CHOOSE p \in 1..Len(line) : line[p] \in {"SKIP", "TODO"}
    ELSE 0

\* The reason text of the directive of a line: what follows the directive
\* word and a space.
DirectiveReason(line) == SubSeq(line, DirectiveAt(line) + 2, Len(line))

\* The text of a bail-out line after "Bail out! ".
BailOutReason(line) == SubSeq(line, 5, Len(line))

\* The reason text of every SKIP and TODO directive of the report (of a Skip
\* or ToDo message, of the description of a skipped or empty plan) is the
\* original under the escaping rule.
C18_DirectiveReasons ==
    \A k \in Started :
        LET S == RunLinesIn(Lines, k)
        IN  /\ \A e \in Entries :
                 (e.plan = k /\ e.raised \in {"Skip", "ToDo"}
                  /\ ~JoinRaises(e.args)) =>
                   LET written == FromResult(S, e.index)
                   IN  /\ Len(written) = 1
                       /\ DirectiveAt(written[1]) > 0
                       /\ IsEscaped(DirectiveReason(written[1]), Join(e.args))
            /\ (RunsNoPoint(plans[k]) /\ plans[k].description # None) =>
                 /\ Len(S) = 1
                 /\ DirectiveAt(S[1]) > 0
                 /\ IsEscaped(DirectiveReason(S[1]), plans[k].description)

\* The descriptions of test points and plans and the message of an error go
\* into the report as they are.
C18_OtherTextVerbatim ==
    /\ \A k \in Started :
         LET S == RunLinesIn(Lines, k)
         IN  \A e \in Entries :
               (e.plan = k /\ WritesResult(e)) =>
                 LET written == FromResult(S, e.index)
                     d == plans[k].test_points[e.index].description
                     at == Len(RunIndent) + 5
                 IN  /\ d # None =>
                          SubSeq(written[1], at, at + 1 + Len(d))
                            = << "-", SP >> \o d
                     /\ (e.raised = "Exception" /\ ~JoinRaises(e.args)) =>
                          written[3]
                            = RunIndent \o << SP, SP, "exception:", SP >>
                              \o RStrip(Join(e.args))
    /\ (~single_plan /\ root_plan /\ pc = "done") =>
         \A j \in 1..Len(Lines) :
            IsRollUpLine(Lines[j]) =>
               \E k \in 1..Len(plans) :
                  Lines[j] \in {RollUpLine(k, TRUE), RollUpLine(k, FALSE)}

\* The reason of the bail-out line is the original, trimmed, as it is.
C18_BailOutVerbatim ==
    \A e \in Entries :
        (e.raised = "BailOut" /\ ~JoinRaises(e.args) /\ pc = "done"
         /\ Strip(Join(e.args)) # << >>) =>
          BailOutReason(SelectSeq(Lines, IsBailOutLine)[1])
            = Strip(Join(e.args))

\* The reason of the bail-out line is the original under the escaping rule.
C18_BailOutEscaped ==
    \A e \in Entries :
        (e.raised = "BailOut" /\ ~JoinRaises(e.args) /\ pc = "done"
         /\ Strip(Join(e.args)) # << >>) =>
          IsEscaped(BailOutReason(SelectSeq(Lines, IsBailOutLine)[1]),
                    Join(e.args))

\* C18, as claimed: the escaping rule ("\" becomes "\\" and "#" becomes "\#",
\* backslashes first, on the trimmed text) is applied to the reason text of
\* SKIP and TODO directives, where the emitted reason has no unescaped "#"
\* and unescapes to the trimmed original, and to no other text of the
\* report.
C18_EscapingOnlyDirectives ==
    /\ C18_DirectiveReasons
    /\ C18_OtherTextVerbatim
    /\ C18_BailOutVerbatim

\* C18, as amended: the escaping rule is applied to the reason text of SKIP
\* and TODO directives and to the reason of the bail-out line, when it is not
\* blank, and to no other text of the report.
C18_EscapingRule ==
    /\ C18_DirectiveReasons
    /\ C18_OtherTextVerbatim
    /\ C18_BailOutEscaped

C18_Witness ==
    /\ pc = "done"
    /\ Len(invoked) = 2
    /\ invoked[1].raised = "Skip"
    /\ invoked[1].args = TextArgs
    /\ invoked[2].raised = "BailOut"
    /\ invoked[2].args = TextArgs
    /\ \E j \in 1..Len(Lines) : IsBailOutLine(Lines[j])

IsRootPlanLine(line) == line # << >> /\ line[1] = "1.."

\* C19: in multi mode the root plan line "1..M", M the number of plans
\* given, is written exactly if root_plan is set, and then it is the second
\* line of the report, after the header and before any comment line and
\* before any test point is called; without root_plan neither a root plan
\* line nor a roll-up line is ever written, whatever the outcomes.
C19_RootPlanLine ==
    LET L == Lines
    IN  (~single_plan /\ pc # "start") =>
          /\ root_plan =>
               /\ Len(L) >= 2
               /\ L[2] = << "1..", ToString(Len(plans)) >>
               /\ Len(SelectSeq(L, IsRootPlanLine)) = 1
          /\ ~root_plan =>
               /\ SelectSeq(L, IsRootPlanLine) = << >>
               /\ SelectSeq(L, IsRollUpLine) = << >>
          /\ (pc = "loop" /\ plan = 0) =>
               /\ invoked = << >>
               /\ Len(L) = IF root_plan THEN 2 ELSE 1

C19_Witness ==
    /\ ~single_plan
    /\ ~root_plan
    /\ pc = "done"
    /\ results = << TRUE, FALSE >>
    /\ Len(Lines) > 2

CommentLine(k) == << HASH, SP, "Tests", SP, "for", SP >> \o plans[k].file_name

\* The number of lines the plan runner wrote for the plans 1..k.
RECURSIVE RunLengths(_, _)
RunLengths(L, k) ==
    IF k = 0 THEN 0 ELSE Len(RunLinesIn(L, k)) + RunLengths(L, k - 1)

IsIndented(line) == line # << >> /\ line[1] = SP

\* C20: in multi mode the output of each plan, skipped and empty plans
\* included, is preceded by exactly one unindented comment line
\* "# Tests for <file_name>"; every line the plan runner writes for the plan
\* starts with 4 spaces, exactly 4 for the plan line and the result lines and
\* 2 more for the lines of a diagnostic block, which follow their result
\* line; the header, the root plan line, the comment lines, the bail-out line
\* and the roll-up lines are not indented.
C20_SubPlanIndentation ==
    LET L == Lines
        Comments == SelectSeq(L, IsCommentLine)
    IN  (~single_plan /\ pc # "start") =>
          /\ Comments = [k \in 1..plan |-> CommentLine(k)]
          /\ \A k \in 1..plan :
               LET S == RunLinesIn(L, k)
               IN  /\ S = << PlanLine(k) >> \o PointReports(Log(k))
                   /\ \A j \in 1..Len(S) :
                        /\ SubSeq(S[j], 1, 4) = << SP, SP, SP, SP >>
                        /\ IF j = 1 \/ IsResultLine(S[j])
                           THEN Indent(S[j]) = 4
                           ELSE /\ Indent(S[j]) >= 6
                                /\ j > 2
                                /\ ~IsCommentLine(S[j - 1])
          /\ Len(SelectSeq(L, IsIndented)) = RunLengths(L, plan)
          /\ \A j \in 1..Len(L) :
               ~IsIndented(L[j]) =>
                  \/ L[j] = Header
                  \/ IsRootPlanLine(L[j])
                  \/ IsCommentLine(L[j])
                  \/ IsBailOutLine(L[j])
                  \/ IsRollUpLine(L[j])
                  \/ (L[j] = << >> /\ j > 1 /\ IsBailOutLine(L[j - 1]))

C20_Witness ==
    /\ ~single_plan
    /\ root_plan
    /\ pc = "done"
    /\ Len(plans) = 2
    /\ RunsNoPoint(plans[1])
    /\ Len(invoked) = 2
    /\ invoked[1].raised = "Exception"
    /\ ~JoinRaises(invoked[1].args)
    /\ Len(results) = 2

\* C21: a BailOut that carries no message, or a message that is empty or
\* only whitespace, has no reason: the bail-out line is exactly "Bail out!";
\* with a message that is not blank the line is "Bail out! <reason>".
C21_BlankBailOutReason ==
    \A e \in Entries :
        (e.raised = "BailOut" /\ ~JoinRaises(e.args) /\ pc = "done") =>
          LET line == SelectSeq(Lines, IsBailOutLine)[1]
          IN  IF Strip(Join(e.args)) = << >>
              THEN line = << "Bail", SP, "out!" >>
              ELSE /\ SubSeq(line, 1, 4) = << "Bail", SP, "out!", SP >>
                   /\ Unescape(BailOutReason(line)) = Strip(Join(e.args))

\* C22: execute_test_plans and _execute_test_plan leave the plans given to
\* them as they are: no step of a run, in single or multi mode, completing or
\* bailing out, changes the length or order of the plan sequence or a plan's
\* file_name, description, skipped flag or test points.
C22_PlansUnchanged ==
    [][ /\ Len(plans') = Len(plans)
        /\ \A k \in 1..Len(plans) :
             /\ plans'[k].file_name = plans[k].file_name
             /\ plans'[k].description = plans[k].description
             /\ plans'[k].skipped = plans[k].skipped
             /\ plans'[k].test_points = plans[k].test_points ]_vars

C22_Witness ==
    /\ ~single_plan
    /\ pc = "done"
    /\ Len(plans) = 2
    /\ Len(returned) = 1
    /\ \E e \in Entries : e.raised = "BailOut" /\ e.plan = 2

\* C23: a test point that raises an object that is none of Skip, ToDo, Fail
\* and BailOut and no Exception (KeyboardInterrupt, SystemExit) is not
\* absorbed: no result line is written for its index, no bail-out line and no
\* roll-up line is written, no later test point or plan is run, and the
\* object leaves execute_test_plans as it is.
C23_BaseExceptionPropagates ==
    LET L == Lines
    IN  \A j \in 1..Len(invoked) :
          invoked[j].raised = "BaseException" =>
            LET e == invoked[j]
            IN  /\ j = Len(invoked)
                /\ pc \in {"unwind", "escaped"}
                /\ exc = [kind |-> "BaseException", args |-> e.args]
                /\ plan = e.plan
                /\ ~HasReturned(e.plan)
                /\ Len(SelectSeq(RunLinesIn(L, e.plan), IsResultLine))
                     = e.index - 1
                /\ SelectSeq(L, IsBailOutLine) = << >>
                /\ ~single_plan =>
                     /\ SelectSeq(L, IsRollUpLine) = << >>
                     /\ Len(SelectSeq(L, IsCommentLine)) = e.plan
                     /\ Len(results) = e.plan - 1
                /\ single_plan =>
                     Len(L) = 2 + Len(PointReports(invoked))

C23_Witness ==
    /\ pc = "escaped"
    /\ exc.kind = "BaseException"
    /\ ~single_plan
    /\ root_plan
    /\ Len(plans) = 2
    /\ Len(invoked) = 2
    /\ invoked[2].plan = 1

(***************************************************************************)
(* Test discovery: build_plan and find_test_plans.                         *)
(***************************************************************************)

\* The file type os.ilistdir gives for a regular file.
RegularFile == 32768

\* A file name is a text in tokens; "test_" and ".py" are tokens of their
\* own where they begin and end a name.
startswith(name, token) == name # << >> /\ name[1] = token
endswith(name, token) == name # << >> /\ name[Len(name)] = token

\* What a directory can hold: two test files, one of which raises after its
\* first plan; a test file that raises before it builds anything; a
\* directory named like a test file; a module that is no test file; a file
\* that is no module.
TestA == [name |-> << "test_", "a", ".py" >>, type |-> RegularFile]
TestB == [name |-> << "test_", "b", ".py" >>, type |-> RegularFile]
TestE == [name |-> << "test_", "e", ".py" >>, type |-> RegularFile]
TestDir == [name |-> << "test_", "c", ".py" >>, type |-> 16384]
Helper == [name |-> << "helper", ".py" >>, type |-> RegularFile]
Notes == [name |-> << "test_", "d", ".txt" >>, type |-> RegularFile]
DirEntries == { TestA, TestB, TestE, TestDir, Helper, Notes }

\* A build_plan call of a test file and the test points it adds to the plan.
Build(description, skipped, points) ==
    [description |-> description, skipped |-> skipped, points |-> points]

\* What the code of a test file does when it runs: its build_plan calls in
\* order, and whether it raises after them.
Script(name) ==
    CASE name = TestA.name ->
           [builds |-> << Build(<< SP, "math", SP >>, FALSE, 1),
                          Build(None, TRUE, 0) >>,
            raises |-> FALSE]
      [] name = TestB.name ->
           [builds |-> << Build(<< "text" >>, FALSE, 0) >>, raises |-> TRUE]
      [] OTHER -> [builds |-> << >>, raises |-> TRUE]

\* The listings of a directory: no name twice.
RECURSIVE ListingsOfLen(_)
ListingsOfLen(m) ==
    IF m = 0 THEN { << >> }
    ELSE { Append(l, e) : l \in ListingsOfLen(m - 1), e \in DirEntries }

Listings ==
    { l \in UNION { ListingsOfLen(m) : m \in 0..MaxFiles } :
        \A i, j \in 1..Len(l) : l[i].name = l[j].name => i = j }

\* build_plan, given the two globals it reads: the error it raises, if any,
\* and _test_plans after it.
build_plan(current_file_name, test_plans, description, skipped) ==
    IF ~Truthy(current_file_name)
    THEN [error |-> "AssertionError", test_plans |-> test_plans]
    ELSE [error |-> "none",
          test_plans |->
              Append(test_plans, Plan(current_file_name, description, skipped))]

\* The code of a test file from its k-th build_plan call on: each plan gets
\* its test points through the object build_plan returned, which is the one
\* in _test_plans.  A build_plan call that raises ends the file's code.
RECURSIVE Execute(_, _, _, _)
Execute(current_file_name, test_plans, builds, k) ==
    IF k > Len(builds) THEN [raised |-> FALSE, test_plans |-> test_plans]
    ELSE LET b == builds[k]
             r == build_plan(current_file_name, test_plans, b.description, b.skipped)
             n == Len(r.test_plans)
         IN  IF r.error # "none"
             THEN [raised |-> TRUE, test_plans |-> r.test_plans]
             ELSE Execute(current_file_name,
                          [r.test_plans EXCEPT
                              ![n] = AddPoints(@, b.points, None)],
                          builds, k + 1)

\* The filter of find_test_plans' loop.
IsTestFile(e) ==
    ~(\/ ~startswith(e.name, "test_")
      \/ ~endswith(e.name, ".py")
      \/ e.type # RegularFile)

\* file_name[:-3] of a name that ends with ".py".
ModuleName(file_name) == SubSeq(file_name, 1, Len(file_name) - 1)

\* find_test_plans is called: _test_plans is bound to a new list and the
\* directory is listed.
FindStart_KeepsPlans ==
    /\ fpc \in {"idle", "returned"}
    /\ Len(found) < MaxCalls
    /\ entry' = 1
    /\ fpc' = "loop"
    /\ imports' = << >>
    /\ outside' = "none"
    /\ UNCHANGED << _test_plans, _current_file_name, directory, modules, found >>
    /\ UNCHANGED execution_vars

FindStart ==
    /\ fpc \in {"idle", "returned"}
    /\ Len(found) < MaxCalls
    /\ _test_plans' = << >>
    /\ entry' = 1
    /\ fpc' = "loop"
    /\ imports' = << >>
    /\ outside' = "none"
    /\ UNCHANGED << _current_file_name, directory, modules, found >>
    /\ UNCHANGED execution_vars

\* The loop meets an entry that is no test file.
SkipEntry ==
    /\ fpc = "loop"
    /\ entry <= Len(directory)
    /\ ~IsTestFile(directory[entry])
    /\ entry' = entry + 1
    /\ UNCHANGED << _test_plans, _current_file_name, directory, fpc, modules,
                    found, imports, outside >>
    /\ UNCHANGED execution_vars

\* The loop meets a test file and imports it.  The import runs the file's
\* code unless the interpreter holds the module already; whatever the code
\* raises is dropped and the loop goes on.  A module whose code ran to its
\* end is held from then on; whether one whose code raised is held depends
\* on the interpreter.
LoadFile ==
    /\ fpc = "loop"
    /\ entry <= Len(directory)
    /\ IsTestFile(directory[entry])
    /\ LET file_name == directory[entry].name
           module_name == ModuleName(file_name)
           held == module_name \in modules
           script == Script(file_name)
       IN  /\ _current_file_name' = file_name
           /\ IF held
              THEN UNCHANGED << _test_plans, modules >>
              ELSE LET r == Execute(_current_file_name', _test_plans, script.builds, 1)
                   IN  /\ _test_plans' = r.test_plans
                       /\ \E kept \in (IF r.raised \/ script.raises
                                       THEN BOOLEAN ELSE {TRUE}) :
                             modules' = IF kept
                                        THEN modules \cup {module_name}
                                        ELSE modules
           /\ imports' = Append(imports, [file |-> file_name, ran |-> ~held])
    /\ entry' = entry + 1
    /\ UNCHANGED << directory, fpc, found, outside >>
    /\ UNCHANGED execution_vars

\* The listing is over: find_test_plans returns.
FindReturn ==
    /\ fpc = "loop"
    /\ entry > Len(directory)
    /\ _current_file_name' = None
    /\ found' = Append(found, _test_plans)
    /\ fpc' = "returned"
    /\ UNCHANGED << _test_plans, directory, entry, modules, imports, outside >>
    /\ UNCHANGED execution_vars

\* build_plan is called while find_test_plans is not running.  The list the
\* last call returned is the object _test_plans names.
BuildPlanOutside ==
    /\ fpc \in {"idle", "returned"}
    /\ \E description \in PlanDescriptions, skipped \in BOOLEAN :
          LET r == build_plan(_current_file_name, _test_plans, description, skipped)
          IN  /\ _test_plans' = r.test_plans
              /\ outside' = IF r.error = "none" THEN "Plan" ELSE r.error
              /\ found' = IF r.error = "none" /\ fpc = "returned"
                          THEN [found EXCEPT ![Len(found)] = r.test_plans]
                          ELSE found
    /\ UNCHANGED << _current_file_name, directory, entry, fpc, modules, imports >>
    /\ UNCHANGED execution_vars

\* No session runs while the directory is searched.
NoSession ==
    /\ plans = << >>
    /\ plans_type = "list"
    /\ root_plan = FALSE
    /\ pc = "start"
    /\ single_plan = FALSE
    /\ plan = 0
    /\ results = << >>
    /\ index = 0
    /\ success = TRUE
    /\ exc = NoExc
    /\ stream = NewStream
    /\ invoked = << >>
    /\ returned = << >>

DiscoveryInit ==
    /\ NoSession
    /\ _test_plans = << >>
    /\ _current_file_name = None
    /\ directory \in Listings
    /\ entry = 0
    /\ fpc = "idle"
    /\ modules = {}
    /\ found = << >>
    /\ imports = << >>
    /\ outside = "none"

DiscoveryNext ==
    \/ FindStart
    \/ SkipEntry
    \/ LoadFile
    \/ FindReturn
    \/ BuildPlanOutside

Discovery == DiscoveryInit /\ [][DiscoveryNext]_vars

(***************************************************************************)
(* C24: what find_test_plans returns.                                      *)
(***************************************************************************)

\* The test files of the listing, by name, in the listing's order.
CandidateNames ==
    LET c == SelectSeq(directory, LAMBDA e : e \in {TestA, TestB, TestE})
    IN  [i \in 1..Len(c) |-> c[i].name]

\* The plans the code of a file creates before it ends or raises, each bound
\* to that file.
PlansBuiltBy(file) ==
    LET builds == Script(file).builds
    IN  [k \in 1..Len(builds) |->
            AddPoints(Plan(file, builds[k].description, builds[k].skipped),
                      builds[k].points, None)]

\* The plans created during the call at hand, in creation order, from its
\* i-th import on.
RECURSIVE CreatedFrom(_)
CreatedFrom(i) ==
    IF i > Len(imports) THEN << >>
    ELSE (IF imports[i].ran THEN PlansBuiltBy(imports[i].file) ELSE << >>)
         \o CreatedFrom(i + 1)

\* C24: when find_test_plans has returned, what it returned is exactly the
\* plans build_plan created during this call, in creation order, each bound
\* to the file that was being loaded; every test file of the listing was
\* imported, in order, whether or not one before it raised, and in the
\* first call the code of each of them ran; _current_file_name is None; and
\* a build_plan call made while find_test_plans is not running ends in an
\* AssertionError and leaves _test_plans as it was.
C24_FindTestPlans ==
    /\ fpc = "returned" =>
          /\ Last(found) = CreatedFrom(1)
          /\ _test_plans = CreatedFrom(1)
          /\ [i \in 1..Len(imports) |-> imports[i].file] = CandidateNames
          /\ Len(found) = 1 => \A i \in 1..Len(imports) : imports[i].ran
          /\ _current_file_name = None
    /\ fpc = "idle" => _test_plans = << >>
    /\ outside # "none" => outside = "AssertionError"

\* A second call has returned plans, other than the first call's; in it a
\* file raised after building a plan and a later file was imported; and
\* build_plan has been called since.
C24_Witness ==
    /\ fpc = "returned"
    /\ Len(found) = 2
    /\ found[1] # << >>
    /\ found[2] # << >>
    /\ found[2] # found[1]
    /\ \E i, j \in 1..Len(imports) :
          /\ i < j
          /\ imports[i].ran
          /\ Script(imports[i].file).raises
          /\ PlansBuiltBy(imports[i].file) # << >>
    /\ outside = "AssertionError"

====
